---- MODULE Spec2Model ----
(***************************************************************************)
(* The frame loop of src/main.rs (an Asteroids game on macroquad).         *)
(*                                                                         *)
(* Fixed-point encoding of the f32/f64 quantities:                         *)
(*   lengths and per-frame velocities   1/300 pixel                        *)
(*   time (get_time)                    1/100 second                       *)
(*   ship.rotation                      degree                             *)
(*   asteroid rotation / rot_speed      1/100 degree                       *)
(*   values of rand::gen_range          hundredths of the range            *)
(* Products are truncated toward zero.  One loop iteration is one action.  *)
(***************************************************************************)
EXTENDS Integers, Sequences, FiniteSets, TLC

\* ---------------------------------------------------------------- constants
\* const SHIP_HEIGHT: f32 = 25.
SHIP_HEIGHT == 7500
\* const TIME_BETWEEN_SHOTS: f64 = 0.2
TIME_BETWEEN_SHOTS == 20
\* the literal 1.5 of bullets.retain
BULLET_LIFETIME == 150
\* for _ in 0..10
NUM_ASTEROIDS == 10
\* add_at_angle(0.5, ..) : thrust of 0.5 pixel
THRUST == 150
\* add_at_angle(7., ..) : muzzle speed of 7 pixel
MUZZLE == 2100
\* the 0.1 pixel deadband of the deceleration
DEADBAND == 30
\* ship.rotation += 3. / -= 3.
TURN == 3

\* ------------------------------------------------------------------- bounds
\* number of Playing frames explored
MaxFrames == 4
\* number of Playing frames explored with the fire key held down
MaxFireFrames == 10
\* how far outside the screen edges the points given to wrap_around lie
MaxOvershoot == 2

\* ------------------------------------------------- environment (macroquad)
\* screen_width() x screen_height() when the program starts (250 x 250 pixel)
StartScreen == [w |-> 75000, h |-> 75000]

\* the window can be resized between two frames: <<size before, size after>>
Resizes == {<<[w |-> 75000, h |-> 75000], [w |-> 37500, h |-> 75000]>>}

\* keys held down during one Playing frame (is_key_down)
KeyInputs == {{"Space", "Right"}, {"Up", "Right"}, {"Left"}}

\* elapsed time between two successive get_time() readings
FrameDts == {20, 65}

\* successive values of rand::gen_range during one field generation
GenStreams == {<<50, 50, 95, 45, 50, 50, 50, 2>>, <<95, 35, 49, 99, 10, 90, 50, 50, 95, 45, 50, 50, 50, 2>>}

\* successive values of rand::gen_range during one collision pass
FragStreams == {<<0, 0, 0, 10, 50, 0, 0, 20, 50>>, <<50, 50, 60, 30, 40, 20, 10, 70, 60>>}

\* window sizes at which a field is generated: 250 x 250 and 100 x 100 pixel
GenScreens == {StartScreen, [w |-> 30000, h |-> 30000]}

\* values of the two rand::gen_range(0., 1.) of one pass of the sampling loop
GenPoints == {<<0, 0>>, <<50, 50>>, <<50, 99>>, <<50, 30>>}

\* values of the four rand::gen_range(-1., 1.) of the returned asteroid
GenTails == {<<50, 50, 50, 2>>}

\* elapsed time between two frames while the fire key is held down
FireDts == {21, 30}

\* keys held down in the later frames of a game whose first frame is tried
\* under every key set: they steer the ship into the asteroids
LaterKeys == {{"Up", "Right"}}

\* the keys the Playing branch reads
AllKeys == {"Up", "Space", "Right", "Left"}

\* ------------------------------------------------------------------ helpers
Abs(n) == IF n < 0 THEN -n ELSE n

Min(a, b) == IF a < b THEN a ELSE b

\* a / b on floats, truncated toward zero (b > 0)
TruncDiv(a, b) == IF a < 0 THEN -((-a) \div b) ELSE a \div b

\* k-th value of a random stream (the stream is cyclic)
Draw(rs, k) == rs[((k - 1) % Len(rs)) + 1]

\* rand::gen_range(lo, hi) for the stream value u
gen_range(lo, hi, u) == lo + TruncDiv((hi - lo) * u, 100)

\* 1000 * sin of 0, 3, 6, .. 90 degrees
SinTable == <<0, 52, 105, 156, 208, 259, 309, 358, 407, 454, 500, 545, 588, 629, 669, 707, 743, 777, 809, 839, 866, 891, 914, 934, 951, 966, 978, 988, 995, 999, 1000>>

\* 1000 * angle.to_radians().sin() for an angle that is a multiple of 3 degrees
SinMilli(angle) == LET d == angle % 360 IN IF d <= 90 THEN SinTable[(d \div 3) + 1] ELSE IF d <= 180 THEN SinTable[((180 - d) \div 3) + 1] ELSE IF d <= 270 THEN -SinTable[((d - 180) \div 3) + 1] ELSE -SinTable[((360 - d) \div 3) + 1]

\* 1000 * angle.to_radians().cos()
CosMilli(angle) == SinMilli(angle + 90)

\* Point::distance(p, q) < r
distance_lt(p, q, r) == /\ Abs(p.x - q.x) < r
                        /\ Abs(p.y - q.y) < r
                        /\ (p.x - q.x) * (p.x - q.x) + (p.y - q.y) * (p.y - q.y) < r * r

\* Point::distance(p, q) > r
distance_gt(p, q, r) == \/ Abs(p.x - q.x) > r
                        \/ Abs(p.y - q.y) > r
                        \/ (p.x - q.x) * (p.x - q.x) + (p.y - q.y) * (p.y - q.y) > r * r

\* Velocity::add_at_angle
add_at_angle(vel, velocity, angle) == [x |-> vel.x + TruncDiv(SinMilli(angle) * (velocity \div 3), 1000), y |-> vel.y - TruncDiv(CosMilli(angle) * (velocity \div 3), 1000)]

\* Velocity::add_velocity
add_velocity(vel, velocity) == [x |-> vel.x + velocity.x, y |-> vel.y + velocity.y]

\* Ship::advance, Bullet::advance and the position part of Asteroid::advance
advance(pos, vel) == [x |-> pos.x + vel.x, y |-> pos.y + vel.y]

\* mutant: the wrap of a negative coordinate is missing
WrapAxisNoNeg(c, extent) == IF c > extent THEN 0 ELSE c

\* mutant: the upper edge compared with >= instead of >
WrapAxisGe(c, extent) == LET c1 == IF c >= extent THEN 0 ELSE c IN IF c1 < 0 THEN extent ELSE c1

\* one axis of wrap_around: the two ifs in sequence
WrapAxis(c, extent) == LET c1 == IF c > extent THEN 0 ELSE c IN IF c1 < 0 THEN extent ELSE c1

\* wrap_around(point) on the screen scr
wrap_around(point, scr) == [x |-> WrapAxis(point.x, scr.w), y |-> WrapAxis(point.y, scr.h)]

\* mutant: the comparison of the clearance test turned around
PointReadyFlipped(asteroid_pos, avoid_point, limit) == distance_lt(asteroid_pos, avoid_point, limit)

\* mutant: the clearance test is missing, every point is taken
PointReadyAlways(asteroid_pos, avoid_point, limit) == TRUE

\* point_ready = asteroid_pos.distance(&avoid_point) > asteroid_size + avoid_distance
PointReady(asteroid_pos, avoid_point, limit) == distance_gt(asteroid_pos, avoid_point, limit)

\* the rejection-sampling loop of generate_asteroid; it has no exit other than
\* an accepted point: ok = FALSE when the stream has cycled without one
RECURSIVE SamplePoint(_, _, _, _, _, _)
SamplePoint(rs, k, scr, avoid_point, limit, tries) == LET p == [x |-> (Draw(rs, k) * scr.w) \div 100, y |-> (Draw(rs, k + 1) * scr.h) \div 100] IN IF PointReady(p, avoid_point, limit) THEN [ok |-> TRUE, pos |-> p, k |-> k + 2] ELSE IF tries = 0 THEN [ok |-> FALSE, pos |-> p, k |-> k + 2] ELSE SamplePoint(rs, k + 2, scr, avoid_point, limit, tries - 1)

\* generate_asteroid(avoid_point, avoid_distance), drawing from rs at index k
generate_asteroid(rs, k, scr, avoid_point, avoid_distance) == LET asteroid_size == Min(scr.w, scr.h) \div 10
                                                                  s == SamplePoint(rs, k, scr, avoid_point, asteroid_size + avoid_distance, Len(rs))
                                                              IN [ok |-> s.ok, k |-> s.k + 4, asteroid |-> [pos |-> s.pos, vel |-> [x |-> gen_range(-300, 300, Draw(rs, s.k)), y |-> gen_range(-300, 300, Draw(rs, s.k + 1))], rotation |-> gen_range(-100, 100, Draw(rs, s.k + 2)), rot_speed |-> gen_range(-100, 100, Draw(rs, s.k + 3)), size |-> asteroid_size, sides |-> 6, collided |-> FALSE]]

\* the loop "for _ in 0..10 { asteroids.push(generate_asteroid(ship.pos, SHIP_HEIGHT * 3.)) }"
RECURSIVE GenerateField(_, _, _, _, _, _)
GenerateField(n, rs, k, scr, avoid_point, acc) == IF n = 0 THEN [ok |-> TRUE, asteroids |-> acc] ELSE LET g == generate_asteroid(rs, k, scr, avoid_point, SHIP_HEIGHT * 3) IN IF ~g.ok THEN [ok |-> FALSE, asteroids |-> acc] ELSE GenerateField(n - 1, rs, g.k, scr, avoid_point, Append(acc, g.asteroid))

\* Ship { pos: (screen_width()/2, screen_height()/2), vel: default, rotation: 0 }
NewShip(scr) == [pos |-> [x |-> scr.w \div 2, y |-> scr.h \div 2], vel |-> [x |-> 0, y |-> 0], rotation |-> 0]


\* ------------------------------------------------------------ Playing frame
\* decelerate over time: one axis of the else branch of the Up test
Decay(c) == IF c > DEADBAND THEN c - TruncDiv(Abs(c), 100) ELSE IF c < -DEADBAND THEN c + TruncDiv(Abs(c), 100) ELSE c

\* ship.vel after the thrust / deceleration step
ShipVelocity(keys, shp) == IF "Up" \in keys THEN add_at_angle(shp.vel, THRUST, shp.rotation) ELSE [x |-> Decay(shp.vel.x), y |-> Decay(shp.vel.y)]

\* mutant: the cooldown compared with >= instead of >
CanFireGe(keys, frame_time, shot) == "Space" \in keys /\ frame_time - shot >= TIME_BETWEEN_SHOTS

\* is_key_down(Space) && frame_time - last_shot > TIME_BETWEEN_SHOTS
CanFire(keys, frame_time, shot) == "Space" \in keys /\ frame_time - shot > TIME_BETWEEN_SHOTS

\* the bullet pushed by the fire control (shp already carries the new velocity)
NewBullet(shp, frame_time) == LET velocity == add_at_angle([x |-> 0, y |-> 0], MUZZLE, shp.rotation) IN [pos |-> advance(advance(shp.pos, velocity), velocity), vel |-> add_velocity(velocity, shp.vel), initial_frame |-> frame_time, collided |-> FALSE]

\* Right wins over Left
Turn(keys, rotation) == IF "Right" \in keys THEN rotation + TURN ELSE IF "Left" \in keys THEN rotation - TURN ELSE rotation

\* ship.advance(); wrap_around(&mut ship.pos)
MoveShip(shp, scr) == [shp EXCEPT !.pos = wrap_around(advance(shp.pos, shp.vel), scr)]

\* bullet.advance(); wrap_around(&mut bullet.pos)
MoveBullet(b, scr) == [b EXCEPT !.pos = wrap_around(advance(b.pos, b.vel), scr)]

\* asteroid.advance(); wrap_around(&mut asteroid.pos)
MoveAsteroid(a, scr) == [a EXCEPT !.pos = wrap_around(advance(a.pos, a.vel), scr), !.rotation = a.rotation + a.rot_speed]

\* mutant: the ship's extent is left out of the strike distance
ShipStrikeNoShip(a, shp) == distance_lt(a.pos, shp.pos, a.size)

\* asteroid.pos.distance(&ship.pos) < asteroid.size + SHIP_HEIGHT / 3.
ShipStrike(a, shp) == distance_lt(a.pos, shp.pos, a.size + SHIP_HEIGHT \div 3)

\* asteroid.pos.distance(&bullet.pos) < asteroid.size
BulletStrike(a, b) == distance_lt(a.pos, b.pos, a.size)

\* mutant: the scan runs to the end and the last bullet in range counts
FirstHitLast(a, buls) == IF \E j \in 1..Len(buls) : BulletStrike(a, buls[j]) THEN CHOOSE j \in 1..Len(buls) : BulletStrike(a, buls[j]) /\ \A m \in (j + 1)..Len(buls) : ~BulletStrike(a, buls[m]) ELSE 0

\* index of the bullet at which the inner loop breaks, 0 when it runs to the end
FirstHit(a, buls) == IF \E j \in 1..Len(buls) : BulletStrike(a, buls[j]) THEN CHOOSE j \in 1..Len(buls) : BulletStrike(a, buls[j]) /\ \A m \in 1..(j - 1) : ~BulletStrike(a, buls[m]) ELSE 0

\* one pushed child; ux, uy, ur, us are its four gen_range values
Child(a, b, e, ux, uy, ur, us) == [pos |-> a.pos, vel |-> [x |-> TruncDiv(b.vel.x, 5) + TruncDiv((a.vel.x + e) * gen_range(0, 200, ux), 100), y |-> TruncDiv(b.vel.y, 5) + TruncDiv((a.vel.y + e) * gen_range(0, 200, uy), 100)], rotation |-> gen_range(0, 36000, ur), rot_speed |-> gen_range(-200, 200, us), size |-> (a.size * 3) \div 5, sides |-> a.sides - 1, collided |-> FALSE]

\* mutant: only the first child is pushed
ChildrenOne(a, b, rs, k) == IF a.sides > 4 THEN <<Child(a, b, gen_range(0, 300, Draw(rs, k)), Draw(rs, k + 1), Draw(rs, k + 2), Draw(rs, k + 3), Draw(rs, k + 4))>> ELSE <<>>

\* mutant: the fragmentation test lets an asteroid with 4 sides through
ChildrenGe(a, b, rs, k) == IF a.sides > 3 THEN LET e == gen_range(0, 300, Draw(rs, k)) IN <<Child(a, b, e, Draw(rs, k + 1), Draw(rs, k + 2), Draw(rs, k + 3), Draw(rs, k + 4)), Child(a, b, e, Draw(rs, k + 5), Draw(rs, k + 6), Draw(rs, k + 7), Draw(rs, k + 8))>> ELSE <<>>

\* mutant: a third child is pushed
ChildrenThree(a, b, rs, k) == IF a.sides > 4 THEN LET e == gen_range(0, 300, Draw(rs, k)) IN <<Child(a, b, e, Draw(rs, k + 1), Draw(rs, k + 2), Draw(rs, k + 3), Draw(rs, k + 4)), Child(a, b, e, Draw(rs, k + 5), Draw(rs, k + 6), Draw(rs, k + 7), Draw(rs, k + 8)), Child(a, b, e, Draw(rs, k + 5), Draw(rs, k + 6), Draw(rs, k + 7), Draw(rs, k + 8))>> ELSE <<>>

\* what a hit asteroid pushes to new_asteroids (nine gen_range values from index k)
Children(a, b, rs, k) == IF a.sides > 4 THEN LET e == gen_range(0, 300, Draw(rs, k)) IN <<Child(a, b, e, Draw(rs, k + 1), Draw(rs, k + 2), Draw(rs, k + 3), Draw(rs, k + 4)), Child(a, b, e, Draw(rs, k + 5), Draw(rs, k + 6), Draw(rs, k + 7), Draw(rs, k + 8))>> ELSE <<>>

\* mutant: the pass goes on with the next asteroid after a ship strike
RECURSIVE CollisionPassNoBreak(_, _, _, _, _, _, _)
CollisionPassNoBreak(i, asts, buls, new, shp, rs, k) == IF i > Len(asts) THEN [asteroids |-> asts, bullets |-> buls, new_asteroids |-> new, gameover |-> FALSE] ELSE IF ShipStrike(asts[i], shp) THEN [CollisionPassNoBreak(i + 1, asts, buls, new, shp, rs, k) EXCEPT !.gameover = TRUE] ELSE LET j == FirstHit(asts[i], buls) IN IF j = 0 THEN CollisionPassNoBreak(i + 1, asts, buls, new, shp, rs, k) ELSE CollisionPassNoBreak(i + 1, [asts EXCEPT ![i].collided = TRUE], [buls EXCEPT ![j].collided = TRUE], new \o Children(asts[i], buls[j], rs, k), shp, rs, k + 9)

\* "for asteroid in asteroids.iter_mut()" from index i on
RECURSIVE CollisionPass(_, _, _, _, _, _, _)
CollisionPass(i, asts, buls, new, shp, rs, k) == IF i > Len(asts) THEN [asteroids |-> asts, bullets |-> buls, new_asteroids |-> new, gameover |-> FALSE] ELSE IF ShipStrike(asts[i], shp) THEN [asteroids |-> asts, bullets |-> buls, new_asteroids |-> new, gameover |-> TRUE] ELSE LET j == FirstHit(asts[i], buls) IN IF j = 0 THEN CollisionPass(i + 1, asts, buls, new, shp, rs, k) ELSE CollisionPass(i + 1, [asts EXCEPT ![i].collided = TRUE], [buls EXCEPT ![j].collided = TRUE], new \o Children(asts[i], buls[j], rs, k), shp, rs, k + 9)

\* mutant: the lifetime compared with >= instead of >
KeepBulletGe(b, frame_time) == b.initial_frame + BULLET_LIFETIME >= frame_time /\ ~b.collided

\* mutant: the age of the bullet is not tested
KeepBulletNoAge(b, frame_time) == ~b.collided

\* the closure of bullets.retain
KeepBullet(b, frame_time) == b.initial_frame + BULLET_LIFETIME > frame_time /\ ~b.collided

\* mutant: flagged asteroids are kept
KeepAsteroidAll(a) == TRUE

\* the closure of asteroids.retain
KeepAsteroid(a) == ~a.collided

\* bullets.retain(..)
RetainBullets(buls, frame_time) == LET Keep(b) == KeepBullet(b, frame_time) IN SelectSeq(buls, Keep)

\* asteroids.retain(..)
RetainAsteroids(asts) == SelectSeq(asts, KeepAsteroid)

\* mutant: the two texts swapped
GameOverTextSwapped(asts) == IF Len(asts) > 0 THEN "win" ELSE "loss"

\* text drawn by a GameOver frame
GameOverText(asts) == IF Len(asts) > 0 THEN "loss" ELSE "win"

\* ---------------------------------------------------------------- the state
VARIABLES ship, asteroids, bullets, last_shot, gameover, time, screen, text, step, frames, ship_hit, frame_screen, pass_asteroids, spawned, game, wrap_in, wrap_out, pass_bullets, destroyed, game_frames, asteroid_pos, point_ready

vars == <<ship, asteroids, bullets, last_shot, gameover, time, screen, text, step, frames, ship_hit, frame_screen, pass_asteroids, spawned, game, wrap_in, wrap_out, pass_bullets, destroyed, game_frames, asteroid_pos, point_ready>>


\* state after the setup of main: last_shot = get_time(), the ship at the
\* centre, ten generated asteroids
Init == /\ screen = StartScreen
        /\ \E rs \in GenStreams : LET field == GenerateField(NUM_ASTEROIDS, rs, 1, screen, NewShip(screen).pos, <<>>) IN field.ok /\ asteroids = field.asteroids
        /\ ship = NewShip(screen)
        /\ bullets = <<>>
        /\ last_shot = 0
        /\ time = 0
        /\ gameover = FALSE
        /\ text = "none"
        /\ step = "start"
        /\ frames = 0
        /\ ship_hit = FALSE
        /\ frame_screen = screen
        /\ pass_asteroids = <<>>
        /\ spawned = <<>>
        /\ game = 0
        /\ wrap_in = [x |-> 0, y |-> 0]
        /\ wrap_out = [x |-> 0, y |-> 0]
        /\ pass_bullets = <<>>
        /\ destroyed = 0
        /\ game_frames = 0
        /\ asteroid_pos = [x |-> 0, y |-> 0]
        /\ point_ready = FALSE

\* the coordinates around the edges 0 and extent of every screen size
WrapCoords(extents) == UNION {((-MaxOvershoot)..1) \cup ((e - 1)..(e + MaxOvershoot)) : e \in extents}

\* wrap_around taken alone: the start state with a point to wrap
InitWrap == /\ screen = StartScreen
            /\ \E rs \in GenStreams : LET field == GenerateField(NUM_ASTEROIDS, rs, 1, screen, NewShip(screen).pos, <<>>) IN field.ok /\ asteroids = field.asteroids
            /\ ship = NewShip(screen)
            /\ bullets = <<>>
            /\ last_shot = 0
            /\ time = 0
            /\ gameover = FALSE
            /\ text = "none"
            /\ step = "start"
            /\ frames = 0
            /\ ship_hit = FALSE
            /\ frame_screen = screen
            /\ pass_asteroids = <<>>
            /\ spawned = <<>>
            /\ game = 0
            /\ wrap_in \in [x : WrapCoords({r[1].w : r \in Resizes} \cup {r[2].w : r \in Resizes}), y : WrapCoords({r[1].h : r \in Resizes} \cup {r[2].h : r \in Resizes})]
            /\ wrap_out = wrap_in
            /\ pass_bullets = <<>>
            /\ destroyed = 0
            /\ game_frames = 0
            /\ asteroid_pos = [x |-> 0, y |-> 0]
            /\ point_ready = FALSE

\* history of the spawned bullets after a frame: the bullet fired in it, and
\* the bullets the collision pass has flagged
Spawned(fire, frame_time, buls) == LET s1 == IF fire THEN Append(spawned, [t |-> frame_time, game |-> game, hit |-> FALSE]) ELSE spawned IN [n \in 1..Len(s1) |-> [s1[n] EXCEPT !.hit = s1[n].hit \/ \E j \in 1..Len(buls) : buls[j].collided /\ buls[j].initial_frame = s1[n].t]]

\* the body of the loop from "let frame_time = get_time()" to the terminal
\* check, as the values it leaves behind
Frame(keys, dt, rs) == LET frame_time == time + dt
                           ship1 == [ship EXCEPT !.vel = ShipVelocity(keys, ship)]
                           fire == CanFire(keys, frame_time, last_shot)
                           bullets1 == IF fire THEN Append(bullets, NewBullet(ship1, frame_time)) ELSE bullets
                           ship2 == MoveShip([ship1 EXCEPT !.rotation = Turn(keys, ship1.rotation)], screen)
                           bullets2 == [j \in 1..Len(bullets1) |-> MoveBullet(bullets1[j], screen)]
                           asteroids2 == [i \in 1..Len(asteroids) |-> MoveAsteroid(asteroids[i], screen)]
                           pass == CollisionPass(1, asteroids2, bullets2, <<>>, ship2, rs, 1)
                           asteroids3 == RetainAsteroids(pass.asteroids) \o pass.new_asteroids
                       IN [frame_time |-> frame_time, fire |-> fire, ship |-> ship2, bullets |-> RetainBullets(pass.bullets, frame_time), asteroids |-> asteroids3, gameover |-> (pass.gameover \/ Len(asteroids3) = 0), ship_hit |-> pass.gameover, pass_asteroids |-> pass.asteroids, pass_bullets |-> pass.bullets]

\* one iteration of the loop with gameover = false
Playing(keys, dt, rs) == /\ ~gameover
                         /\ \E f \in {Frame(keys, dt, rs)} :
                               /\ time' = f.frame_time
                               /\ last_shot' = IF f.fire THEN f.frame_time ELSE last_shot
                               /\ ship' = f.ship
                               /\ bullets' = f.bullets
                               /\ asteroids' = f.asteroids
                               /\ gameover' = f.gameover
                               /\ ship_hit' = f.ship_hit
                               /\ pass_asteroids' = f.pass_asteroids
                               /\ spawned' = Spawned(f.fire, f.frame_time, f.pass_bullets)
                               /\ pass_bullets' = f.pass_bullets
                               /\ destroyed' = destroyed + Len(f.pass_asteroids) - Len(RetainAsteroids(f.pass_asteroids))
                         /\ frame_screen' = screen
                         /\ text' = "none"
                         /\ step' = "playing"
                         /\ frames' = frames + 1
                         /\ game_frames' = game_frames + 1
                         /\ UNCHANGED <<screen, game, wrap_in, wrap_out, asteroid_pos, point_ready>>

\* the Playing iterations explored from the start of the program
PlayingFrame(keys, dt, rs) == frames < MaxFrames /\ Playing(keys, dt, rs)

\* mutant: the GameOver iteration still integrates the asteroids
GameOverFrameMoves == /\ gameover
                      /\ text' = GameOverText(asteroids)
                      /\ step' = "gameover"
                      /\ asteroids' = [i \in 1..Len(asteroids) |-> MoveAsteroid(asteroids[i], screen)]
                      /\ UNCHANGED <<ship, bullets, last_shot, gameover, time, screen, frames, ship_hit, frame_screen, pass_asteroids, spawned, game, wrap_in, wrap_out, pass_bullets, destroyed, game_frames, asteroid_pos, point_ready>>

\* one iteration with gameover = true and Enter up: the text is drawn
GameOverFrame == /\ gameover
                 /\ text' = GameOverText(asteroids)
                 /\ step' = "gameover"
                 /\ UNCHANGED <<ship, asteroids, bullets, last_shot, gameover, time, screen, frames, ship_hit, frame_screen, pass_asteroids, spawned, game, wrap_in, wrap_out, pass_bullets, destroyed, game_frames, asteroid_pos, point_ready>>

\* mutant: the reset forgets to clear the bullets
ResetBulletsKept == bullets

\* bullets = Vec::new() of the reset
ResetBullets == <<>>

\* one iteration with gameover = true and Enter down
Reset(rs) == /\ gameover
             /\ LET field == GenerateField(NUM_ASTEROIDS, rs, 1, screen, NewShip(screen).pos, <<>>) IN field.ok /\ asteroids' = field.asteroids
             /\ ship' = NewShip(screen)
             /\ bullets' = ResetBullets
             /\ gameover' = FALSE
             /\ text' = "none"
             /\ step' = "reset"
             /\ ship_hit' = FALSE
             /\ pass_asteroids' = <<>>
             /\ game' = game + 1
             /\ frame_screen' = screen
             /\ pass_bullets' = <<>>
             /\ destroyed' = 0
             /\ game_frames' = 0
             /\ UNCHANGED <<last_shot, time, screen, frames, spawned, wrap_in, wrap_out, asteroid_pos, point_ready>>

\* the latest iteration ended in next_frame().await: the reset, and a Playing
\* frame that leaves no asteroid, go on to the next iteration without it
Awaited == step \in {"gameover", "wrapped"} \/ (step = "playing" /\ asteroids # <<>>)

\* the window is resized while the loop awaits the next frame
Resize(scr) == /\ <<screen, scr>> \in Resizes
               /\ Awaited
               /\ screen' = scr
               /\ UNCHANGED <<ship, asteroids, bullets, last_shot, gameover, time, text, step, frames, ship_hit, frame_screen, pass_asteroids, spawned, game, wrap_in, wrap_out, pass_bullets, destroyed, game_frames, asteroid_pos, point_ready>>

Next == \/ \E keys \in KeyInputs, dt \in FrameDts, rs \in FragStreams : PlayingFrame(keys, dt, rs)
        \/ GameOverFrame
        \/ \E rs \in GenStreams : Reset(rs)
        \/ \E r \in Resizes : Resize(r[2])

Spec == Init /\ [][Next]_vars

\* a call of wrap_around on the point wrap_in
ApplyWrap == /\ wrap_out' = wrap_around(wrap_in, screen)
             /\ frame_screen' = screen
             /\ step' = "wrapped"
             /\ UNCHANGED <<ship, asteroids, bullets, last_shot, gameover, time, screen, text, frames, ship_hit, pass_asteroids, spawned, game, wrap_in, pass_bullets, destroyed, game_frames, asteroid_pos, point_ready>>

NextWrap == \/ ApplyWrap
            \/ \E r \in Resizes : Resize(r[2])

SpecWrap == InitWrap /\ [][NextWrap]_vars


\* ------------------------------------------------- the fire key held down
\* a Playing iteration with Space down and no other key
FireFrame(dt, rs) == frames < MaxFireFrames /\ Playing({"Space"}, dt, rs)

NextFire == \E dt \in FireDts, rs \in FragStreams : FireFrame(dt, rs)

SpecFire == Init /\ [][NextFire]_vars

\* ------------------------------------- the first frame under every key set
\* the first Playing iteration of a game, with any set of keys down
FirstFrame(keys, dt, rs) == game_frames = 0 /\ frames < MaxFrames /\ Playing(keys, dt, rs)

\* a later Playing iteration of the game
LaterFrame(keys, dt, rs) == game_frames > 0 /\ PlayingFrame(keys, dt, rs)

NextSpawn == \/ \E keys \in SUBSET AllKeys, dt \in FrameDts, rs \in FragStreams : FirstFrame(keys, dt, rs)
             \/ \E keys \in LaterKeys, dt \in FrameDts, rs \in FragStreams : LaterFrame(keys, dt, rs)
             \/ GameOverFrame
             \/ \E rs \in GenStreams : Reset(rs)
             \/ \E r \in Resizes : Resize(r[2])

SpecSpawn == Init /\ [][NextSpawn]_vars

\* ------------------------------------------- generate_asteroid step by step
\* the entry of the loop "for _ in 0..10" with an empty collection
InitGen == /\ screen \in GenScreens
           /\ asteroids = <<>>
           /\ ship = NewShip(screen)
           /\ bullets = <<>>
           /\ last_shot = 0
           /\ time = 0
           /\ gameover = FALSE
           /\ text = "none"
           /\ step = "generating"
           /\ frames = 0
           /\ ship_hit = FALSE
           /\ frame_screen = screen
           /\ pass_asteroids = <<>>
           /\ spawned = <<>>
           /\ game = 0
           /\ wrap_in = [x |-> 0, y |-> 0]
           /\ wrap_out = [x |-> 0, y |-> 0]
           /\ pass_bullets = <<>>
           /\ destroyed = 0
           /\ game_frames = 0
           /\ asteroid_pos = [x |-> 0, y |-> 0]
           /\ point_ready = FALSE

\* one pass of "while point_ready == false": a point is drawn and tested
GenAttempt(u) == /\ step = "generating"
                 /\ point_ready = FALSE
                 /\ asteroid_pos' = [x |-> (u[1] * screen.w) \div 100, y |-> (u[2] * screen.h) \div 100]
                 /\ point_ready' = PointReady(asteroid_pos', ship.pos, Min(screen.w, screen.h) \div 10 + SHIP_HEIGHT * 3)
                 /\ UNCHANGED <<ship, asteroids, bullets, last_shot, gameover, time, screen, text, step, frames, ship_hit, frame_screen, pass_asteroids, spawned, game, wrap_in, wrap_out, pass_bullets, destroyed, game_frames>>

\* a pass of the loop that draws a point the test accepts
GenAccept == \E u \in GenPoints : GenAttempt(u) /\ point_ready'

\* the loop is left: the asteroid is returned and pushed, and the next call,
\* if any, starts with its own asteroid_pos and point_ready
GenReturn(rs) == /\ step = "generating"
                 /\ point_ready = TRUE
                 /\ asteroids' = Append(asteroids, [pos |-> asteroid_pos, vel |-> [x |-> gen_range(-300, 300, Draw(rs, 1)), y |-> gen_range(-300, 300, Draw(rs, 2))], rotation |-> gen_range(-100, 100, Draw(rs, 3)), rot_speed |-> gen_range(-100, 100, Draw(rs, 4)), size |-> Min(screen.w, screen.h) \div 10, sides |-> 6, collided |-> FALSE])
                 /\ asteroid_pos' = [x |-> 0, y |-> 0]
                 /\ point_ready' = FALSE
                 /\ step' = IF Len(asteroids) + 1 = NUM_ASTEROIDS THEN "generated" ELSE "generating"
                 /\ UNCHANGED <<ship, bullets, last_shot, gameover, time, screen, text, frames, ship_hit, frame_screen, pass_asteroids, spawned, game, wrap_in, wrap_out, pass_bullets, destroyed, game_frames>>

NextGen == \/ \E u \in GenPoints : GenAttempt(u)
           \/ \E rs \in GenTails : GenReturn(rs)

\* the loop keeps running, and a point that the random source can draw again
\* and again is drawn in the end
SpecGen == InitGen /\ [][NextGen]_vars /\ WF_vars(NextGen) /\ SF_vars(GenAccept)

\* ------------------------------------------------------------------- claims
\* the centre of a screen
Centre(scr) == [x |-> scr.w \div 2, y |-> scr.h \div 2]

\* some asteroid is, after the integration step of the latest Playing frame,
\* closer to the ship than its size plus a third of the ship's height
SomeAsteroidOnShip == \E i \in 1..Len(pass_asteroids) : distance_lt(pass_asteroids[i].pos, ship.pos, pass_asteroids[i].size + SHIP_HEIGHT \div 3)

\* C1: a Playing frame in which some asteroid, at any index, is within
\* size + SHIP_HEIGHT/3 of the ship ends with gameover set and a non-empty
\* asteroid collection, and the GameOver frames that follow draw the loss text
C1_ShipStrikeLoses == (step \in {"playing", "gameover"} /\ SomeAsteroidOnShip) => (gameover /\ asteroids # <<>> /\ (step = "gameover" => text = "loss"))

\* C1 witness: the loss text is drawn after a frame in which an asteroid that
\* is not the first of the collection was on the ship
C1_Witness == step = "gameover" /\ text = "loss" /\ SomeAsteroidOnShip /\ ~distance_lt(pass_asteroids[1].pos, ship.pos, pass_asteroids[1].size + SHIP_HEIGHT \div 3)

\* C2: a Playing frame that leaves the collection empty sets gameover; a
\* GameOver frame draws the win text exactly when the collection is empty and
\* the loss text exactly when it is not; and the collection is empty in
\* GameOver only when no asteroid struck the ship in the frame that ended the game
C2_TerminalDisplay == /\ (step = "playing" /\ asteroids = <<>>) => gameover
                      /\ step = "gameover" => ((text = "win") <=> (asteroids = <<>>)) /\ ((text = "loss") <=> (asteroids # <<>>))
                      /\ (gameover /\ asteroids = <<>>) => (~ship_hit /\ ~SomeAsteroidOnShip)

\* C2 witness: the win text is drawn
C2_Witness == step = "gameover" /\ text = "win" /\ asteroids = <<>>

\* the asteroids the latest collision pass left unflagged, in order
PassSurvivors == LET Kept(a) == ~a.collided IN SelectSeq(pass_asteroids, Kept)

\* the asteroids the latest collision pass flagged that have more than 4 sides
PassParents == LET Big(a) == a.collided /\ a.sides > 4 IN SelectSeq(pass_asteroids, Big)

\* c is a fragment of the parent p
IsChildOf(c, p) == c.pos = p.pos /\ c.sides = p.sides - 1 /\ c.size * 5 = p.size * 3 /\ c.collided = FALSE

\* C3: after the pruning step the collection is the unflagged asteroids
\* followed by exactly two children per flagged asteroid with sides > 4 (same
\* position, one side fewer, 0.6 of the size, not flagged); flagged asteroids
\* are gone and those with sides <= 4 leave nothing
C3_Fragmentation == step = "playing" => /\ Len(asteroids) = Len(PassSurvivors) + 2 * Len(PassParents)
                                        /\ \A m \in 1..Len(PassSurvivors) : asteroids[m] = PassSurvivors[m]
                                        /\ \A q \in 1..Len(PassParents) : IsChildOf(asteroids[Len(PassSurvivors) + 2 * q - 1], PassParents[q]) /\ IsChildOf(asteroids[Len(PassSurvivors) + 2 * q], PassParents[q])

\* C3 witness: a frame in which asteroids with more than 4 sides fragment
\* while others survive
C3_Witness == step = "playing" /\ Len(PassParents) > 0 /\ Len(PassSurvivors) > 0 /\ Len(asteroids) = Len(PassSurvivors) + 2 * Len(PassParents)

\* C4: the iteration that resets the game leaves the ship at the screen centre
\* with zero velocity and rotation 0, no bullet, ten asteroids, and Playing
C4_Reset == step = "reset" => /\ ship = [pos |-> Centre(frame_screen), vel |-> [x |-> 0, y |-> 0], rotation |-> 0]
                              /\ bullets = <<>>
                              /\ Len(asteroids) = NUM_ASTEROIDS
                              /\ \A i \in 1..Len(asteroids) : asteroids[i].sides = 6 /\ ~asteroids[i].collided
                              /\ ~gameover

\* C4 witness: a reset of a game in which a bullet had been fired
C4_Witness == step = "reset" /\ \E n \in 1..Len(spawned) : spawned[n].game = game - 1

\* C5: right after the start and after every reset there are exactly ten
\* asteroids, each with 6 sides, not flagged, of size min(width, height)/10,
\* and farther than size + 3 * SHIP_HEIGHT from the ship at the screen centre
C5_FreshField == step \in {"start", "reset"} => /\ Len(asteroids) = 10
                                                /\ ship.pos = Centre(frame_screen)
                                                /\ \A i \in 1..Len(asteroids) : /\ asteroids[i].sides = 6
                                                                                /\ asteroids[i].collided = FALSE
                                                                                /\ asteroids[i].size * 10 = Min(frame_screen.w, frame_screen.h)
                                                                                /\ distance_gt(asteroids[i].pos, Centre(frame_screen), asteroids[i].size + 3 * SHIP_HEIGHT)

\* C5 witness: a field generated by a reset in the resized window
C5_Witness == step = "reset" /\ frame_screen # StartScreen /\ Len(asteroids) = 10


\* C6: any two bullets ever spawned, in whatever game, have spawn times more
\* than TIME_BETWEEN_SHOTS apart (so no frame spawns two)
C6_FireRate == \A m, n \in 1..Len(spawned) : m < n => spawned[n].t - spawned[m].t > TIME_BETWEEN_SHOTS

\* C6 witness: two bullets of different games spawned 40 hundredths apart, the
\* closest the frame times allow
C6_Witness == \E n \in 1..(Len(spawned) - 1) : spawned[n + 1].t - spawned[n].t = 2 * TIME_BETWEEN_SHOTS /\ spawned[n + 1].game # spawned[n].game

\* a bullet spawned at time t is in the bullet collection
Present(t) == \E j \in 1..Len(bullets) : bullets[j].initial_frame = t

\* C7 as stated: at the end of a Playing iteration every bullet ever spawned
\* and never flagged is present iff the frame time is < spawn time + 1.5 s
C7_Original == step = "playing" => \A n \in 1..Len(spawned) : ~spawned[n].hit => (Present(spawned[n].t) <=> time < spawned[n].t + BULLET_LIFETIME)

\* C7 amended: the same for the bullets spawned in the current game (a reset
\* empties the bullet collection whatever the bullets' age)
C7_Lifetime == step = "playing" => \A n \in 1..Len(spawned) : (spawned[n].game = game /\ ~spawned[n].hit) => (Present(spawned[n].t) <=> time < spawned[n].t + BULLET_LIFETIME)

\* C7 witness: the frame whose time is exactly 1.5 s after the spawn of an
\* unflagged bullet of the current game, while a younger bullet is present
C7_Witness == step = "playing" /\ \E n \in 1..Len(spawned) : spawned[n].game = game /\ ~spawned[n].hit /\ time = spawned[n].t + BULLET_LIFETIME /\ ~Present(spawned[n].t) /\ bullets # <<>>

\* the positions of the ship, the bullets and the asteroids
Positions == {ship.pos} \cup {bullets[j].pos : j \in 1..Len(bullets)} \cup {asteroids[i].pos : i \in 1..Len(asteroids)}

\* C8 as stated: after the wrap step of a Playing frame every position is in
\* [0, width) x [0, height)
C8_Original == step = "playing" => \A p \in Positions : 0 <= p.x /\ p.x < frame_screen.w /\ 0 <= p.y /\ p.y < frame_screen.h

\* C8 amended: every position is in [0, width] x [0, height], both ends included
C8_Positions == step = "playing" => \A p \in Positions : 0 <= p.x /\ p.x <= frame_screen.w /\ 0 <= p.y /\ p.y <= frame_screen.h

\* C8 witness: an asteroid that left the screen on the left sits at x = width
C8_Witness == step = "playing" /\ \E i \in 1..Len(asteroids) : asteroids[i].pos.x = frame_screen.w /\ asteroids[i].vel.x < 0

\* C9 as stated, for one axis: unchanged inside [0, extent), extent to 0,
\* negative to extent
AxisAsStated(c, out, extent) == /\ (0 <= c /\ c < extent) => out = c
                                /\ c = extent => out = 0
                                /\ c < 0 => out = extent

\* C9 as stated
C9_Original == step = "wrapped" => AxisAsStated(wrap_in.x, wrap_out.x, frame_screen.w) /\ AxisAsStated(wrap_in.y, wrap_out.y, frame_screen.h)

\* C9 amended, for one axis: unchanged inside [0, extent] (the extent itself
\* included), above the extent to 0, negative to extent
AxisAmended(c, out, extent) == /\ (0 <= c /\ c <= extent) => out = c
                               /\ c > extent => out = 0
                               /\ c < 0 => out = extent

\* C9 amended: each axis is wrapped so, whatever the other coordinate
C9_Wrap == step = "wrapped" => AxisAmended(wrap_in.x, wrap_out.x, frame_screen.w) /\ AxisAmended(wrap_in.y, wrap_out.y, frame_screen.h)

\* C9 witness: x exactly at the width stays, y below 0 goes to the height
C9_Witness == step = "wrapped" /\ wrap_in.x = frame_screen.w /\ wrap_out.x = frame_screen.w /\ wrap_in.y < 0 /\ wrap_out.y = frame_screen.h

\* C10: at the end of every iteration no bullet and no asteroid of the
\* collections is flagged collided
C10_FlagsTransient == /\ \A j \in 1..Len(bullets) : ~bullets[j].collided
                      /\ \A i \in 1..Len(asteroids) : ~asteroids[i].collided

\* C10 witness: a frame that ends the game by a ship strike after its
\* collision pass had flagged an asteroid and a bullet
C10_Witness == step = "playing" /\ ship_hit /\ (\E i \in 1..Len(pass_asteroids) : pass_asteroids[i].collided) /\ (\E n \in 1..Len(spawned) : spawned[n].hit /\ spawned[n].game = game)

\* the number of asteroids of asts that have n sides
WithSides(asts, n) == Cardinality({i \in 1..Len(asts) : asts[i].sides = n})

\* the number of asteroids that the latest collision pass flagged and that
\* have n sides
FlaggedWithSides(n) == Cardinality({i \in 1..Len(pass_asteroids) : pass_asteroids[i].collided /\ pass_asteroids[i].sides = n})

\* the number of asteroids with n sides that the latest collision pass left
\* unflagged
KeptWithSides(n) == Cardinality({i \in 1..Len(pass_asteroids) : ~pass_asteroids[i].collided /\ pass_asteroids[i].sides = n})

\* C11: every asteroid of the collection has 4, 5 or 6 sides; a generated
\* field has 6 sides throughout; after a Playing frame the asteroids with n
\* sides are the unflagged ones with n sides and two children for each flagged
\* asteroid with n + 1 sides, so that a flagged asteroid with 4 sides leaves
\* nothing behind
C11_Sides == /\ \A i \in 1..Len(asteroids) : asteroids[i].sides \in {4, 5, 6}
             /\ step \in {"start", "reset"} => \A i \in 1..Len(asteroids) : asteroids[i].sides = 6
             /\ step = "playing" => \A n \in 4..6 : WithSides(asteroids, n) = KeptWithSides(n) + 2 * FlaggedWithSides(n + 1)

\* C11 witness: a frame that destroys asteroids with 4 sides and nothing else,
\* and leaves a collection of exactly the unflagged asteroids
C11_Witness == step = "playing" /\ FlaggedWithSides(4) > 0 /\ asteroids # <<>> /\ Len(asteroids) = KeptWithSides(4) + KeptWithSides(5) + KeptWithSides(6)

\* C12: the generation of a field comes to an end at every window size, also
\* one where no point of the window is farther from the ship than the
\* asteroid size plus the avoid distance
C12_Terminates == <>(step = "generated")

\* the generation of the field ends in the 250 x 250 window
C12_LargeWindow == (screen = StartScreen) => <>(step = "generated")

\* the index in pass_bullets of the bullet on whose account the latest
\* collision pass flagged the asteroid at index i of pass_asteroids
FlaggedBy(i) == FirstHit(pass_asteroids[i], pass_bullets)

\* C13: in one collision pass no bullet is the cause of two flagged
\* asteroids: a bullet flagged for an earlier asteroid is not used again for a
\* later one
C13_OneAsteroidPerBullet == step = "playing" => \A i, m \in 1..Len(pass_asteroids) : (i < m /\ pass_asteroids[i].collided /\ pass_asteroids[m].collided) => FlaggedBy(i) # FlaggedBy(m)

\* in the latest collision pass the bullet at index j lies within the size of
\* the asteroid at index i
Overlaps(i, j) == distance_lt(pass_asteroids[i].pos, pass_bullets[j].pos, pass_asteroids[i].size)

\* the bullet at index j is the first, in collection order, within the size
\* of the asteroid at index i
FirstOverlap(i, j) == Overlaps(i, j) /\ \A m \in 1..(j - 1) : ~Overlaps(i, m)

\* the asteroids, and the bullets, that the latest collision pass flagged
FlaggedAsteroids == {i \in 1..Len(pass_asteroids) : pass_asteroids[i].collided}

FlaggedBullets == {j \in 1..Len(pass_bullets) : pass_bullets[j].collided}

\* C14: in one collision pass a bullet is flagged only as the first bullet
\* within the size of some flagged asteroid; of a flagged asteroid that first
\* bullet is flagged; so the flagged bullets are no more than the flagged
\* asteroids, and each flagged asteroid with more than 4 sides is replaced by
\* two children however many bullets lie within it
C14_OneBulletPerAsteroid == step = "playing" => /\ \A j \in FlaggedBullets : \E i \in FlaggedAsteroids : FirstOverlap(i, j)
                                                /\ \A i \in FlaggedAsteroids : \E j \in FlaggedBullets : FirstOverlap(i, j)
                                                /\ Cardinality(FlaggedBullets) <= Cardinality(FlaggedAsteroids)
                                                /\ Len(asteroids) = Len(pass_asteroids) - Cardinality(FlaggedAsteroids) + 2 * (FlaggedWithSides(5) + FlaggedWithSides(6))

\* C14 witness: two bullets lie within the size of a flagged asteroid and
\* only the first of them is flagged
C14_Witness == step = "playing" /\ \E i \in FlaggedAsteroids : \E j, m \in 1..Len(pass_bullets) : j < m /\ FirstOverlap(i, j) /\ Overlaps(i, m) /\ pass_bullets[j].collided /\ ~pass_bullets[m].collided

\* after the integration step of the latest Playing frame the asteroid at
\* index i is within its size plus a third of the ship's height of the ship
StrikeAt(i) == distance_lt(pass_asteroids[i].pos, ship.pos, pass_asteroids[i].size + SHIP_HEIGHT \div 3)

\* the first index, in collection order, of an asteroid on the ship
FirstStrike == CHOOSE i \in 1..Len(pass_asteroids) : StrikeAt(i) /\ \A m \in 1..(i - 1) : ~StrikeAt(m)

\* C15: when the asteroid at index i is the first on the ship, no asteroid at
\* an index >= i is flagged and each of them is still in the collection, in
\* order, behind the unflagged asteroids of lower index; no bullet is flagged
\* but as the first bullet within a flagged asteroid of index < i; and the
\* asteroids of index < i that a bullet lies within are flagged, gone from the
\* collection, and replaced by their children
C15_StrikeStopsPass == (step = "playing" /\ SomeAsteroidOnShip) => LET i == FirstStrike
                                                                        gone == Cardinality({m \in 1..(i - 1) : pass_asteroids[m].collided})
                                                                    IN /\ \A m \in i..Len(pass_asteroids) : ~pass_asteroids[m].collided /\ asteroids[m - gone] = pass_asteroids[m]
                                                                       /\ \A j \in FlaggedBullets : \E m \in 1..(i - 1) : pass_asteroids[m].collided /\ FirstOverlap(m, j)
                                                                       /\ \A m \in 1..(i - 1) : pass_asteroids[m].collided <=> \E j \in 1..Len(pass_bullets) : Overlaps(m, j)
                                                                       /\ \A m \in 1..Len(PassSurvivors) : asteroids[m] = PassSurvivors[m]
                                                                       /\ Len(asteroids) = Len(pass_asteroids) - gone + 2 * (FlaggedWithSides(5) + FlaggedWithSides(6))

\* C15 witness: the first asteroid on the ship is not the first of the
\* collection, an asteroid before it is flagged, and a bullet lies within an
\* asteroid at or behind it, which stays unflagged
C15_Witness == step = "playing" /\ SomeAsteroidOnShip /\ (\E m \in 1..(FirstStrike - 1) : pass_asteroids[m].collided) /\ (\E m \in FirstStrike..Len(pass_asteroids) : ~pass_asteroids[m].collided /\ \E j \in 1..Len(pass_bullets) : Overlaps(m, j))

\* C16: an iteration that starts in GameOver and draws the text leaves the
\* ship, the asteroids, the bullets and last_shot as they were and stays in
\* GameOver; GameOver is left by the reset only
C16_Frozen == [][gameover => /\ (step' = "gameover" => (gameover' /\ UNCHANGED <<ship, asteroids, bullets, last_shot>>))
                             /\ (~gameover' => step' = "reset")]_vars

\* C16 witness: the text is drawn while bullets are in flight and an asteroid
\* has a velocity
C16_Witness == step = "gameover" /\ bullets # <<>> /\ \E i \in 1..Len(asteroids) : asteroids[i].vel # [x |-> 0, y |-> 0]

\* the weighted mass 4 * (sides 6) + 2 * (sides 5) + 1 * (sides 4) of asts
Mass(asts) == 4 * WithSides(asts, 6) + 2 * WithSides(asts, 5) + WithSides(asts, 4)

\* C17, the states: the mass is 40 after the start and after a reset and
\* never above 40; a Playing frame lowers it by the number of flagged
\* asteroids with 4 sides and by nothing else; the collection never holds more
\* than 40 asteroids; the destructions of the game so far and those still to
\* come (7 per asteroid with 6 sides, 3 per 5 sides, 1 per 4 sides) add up to
\* 70, so that the collection is empty after exactly 70 destructions
C17_MassStates == /\ step \in {"start", "reset"} => Mass(asteroids) = 40
                  /\ Mass(asteroids) <= 40
                  /\ Len(asteroids) <= 40
                  /\ step = "playing" => Mass(asteroids) = Mass(pass_asteroids) - FlaggedWithSides(4)
                  /\ destroyed + 7 * WithSides(asteroids, 6) + 3 * WithSides(asteroids, 5) + WithSides(asteroids, 4) = 70
                  /\ asteroids = <<>> => destroyed = 70

\* C17, the steps: a Playing frame starts its collision pass with the mass
\* the collection had before the frame, and ends with no more
C17_MassSteps == step' = "playing" => (Mass(pass_asteroids') = Mass(asteroids) /\ Mass(asteroids') <= Mass(asteroids))

\* C17: the weighted mass within one game
C17_Mass == []C17_MassStates /\ [][C17_MassSteps]_vars

\* C17 witness: a frame whose collision pass starts with 40 asteroids of 4
\* sides and destroys the last of them, the 70th destruction of the game
C17_Witness == step = "playing" /\ Len(pass_asteroids) = 40 /\ WithSides(pass_asteroids, 4) = 40 /\ asteroids = <<>> /\ destroyed = 70

\* C18: at the end of every Playing frame the bullet collection holds at most
\* 8 bullets
C18_BulletBound == step = "playing" => Len(bullets) <= 8

\* C18 witness: 8 bullets at the end of a frame that has just dropped a bullet
\* for its age and spawned another
C18_Witness == step = "playing" /\ Len(bullets) = 8 /\ bullets[8].initial_frame = time /\ \E n \in 1..Len(spawned) : spawned[n].t < bullets[1].initial_frame /\ ~spawned[n].hit

\* C19: the first Playing frame after the start or after a reset, whatever
\* keys are down, ends with no asteroid on the ship, all ten asteroids in the
\* collection and gameover not set
C19_SpawnSafety == (step = "playing" /\ game_frames = 1) => (~gameover /\ ~SomeAsteroidOnShip /\ Len(asteroids) = NUM_ASTEROIDS /\ FlaggedAsteroids = {})

\* C19 witness: the first frame after a reset in the resized window, with
\* thrust and a bullet fired
C19_Witness == step = "playing" /\ game_frames = 1 /\ game > 0 /\ frame_screen # StartScreen /\ bullets # <<>> /\ ship.vel # [x |-> 0, y |-> 0]

====
